---------------------------- MODULE Spec2Model ----------------------------
(***************************************************************************)
(* MusicRecommendationEngine of Frontend/src/hooks/usePlayer.tsx: the      *)
(* session-scoped listening-event tracker, the taste profile, the scorer   *)
(* and the familiar/discovery blender.                                     *)
(*                                                                         *)
(* Number representation.  JavaScript numbers are IEEE doubles; TLC has    *)
(* integers only.                                                          *)
(*  - affinities are held in units of 1/Scale.  Every duration pair used   *)
(*    below gives a dyadic completion ratio, so each affinity update is    *)
(*    exact here and exact in doubles;                                     *)
(*  - discoveryOpenness is held in hundredths (0.3 is 30, a step of 0.05   *)
(*    is 5).  The 19 doubles the code can reach by steps of 0.05 from 0.3  *)
(*    each lie within 1e-15 of one of these decimals and compare with 0.1, *)
(*    0.4 and 0.5 as that decimal does.  Math.ceil(count * (1 - openness)) *)
(*    agrees with the decimal value for every count up to 11 but at the    *)
(*    double 0.39999999999999997 (0.3 + 0.05 + 0.05), where counts 5 and   *)
(*    10 give 4 and 7 in doubles and 3 and 6 in decimals;                  *)
(*  - scores are held in units of 1/100000, the two normalised ratios      *)
(*    rounded down to 1/1000.                                              *)
(* A JavaScript Map or Set is a sequence in insertion order.               *)
(***************************************************************************)
EXTENDS Integers, Sequences, FiniteSets, TLC

VARIABLES
    artistPreferences,  \* userProfile.artistPreferences : Map, as <<key, value>> entries
    genrePreferences,   \* userProfile.genrePreferences  : Map, as <<key, value>> entries
    recentlyPlayed,     \* userProfile.recentlyPlayed    : Set, in insertion order
    recentlySkipped,    \* userProfile.recentlySkipped   : Set, in insertion order
    favoriteArtists,    \* userProfile.favoriteArtists   : string[]
    discoveryOpenness,  \* userProfile.discoveryOpenness, in hundredths
    moodPreferences,    \* userProfile.moodPreferences   : Map, never written after construction
    lastUpdated,        \* userProfile.lastUpdated, Date.now() as the number of caller steps so far
    listeningHistory,   \* listeningHistory : ListeningEvent[]
    script,             \* the caller's event schedule of this run
    n,                  \* number of caller steps taken
    log,                \* every event recorded since construction or the last reset
    lastOp,             \* the operation that produced this state
    args,               \* its arguments
    ret,                \* its return value
    blob,               \* the text the caller holds from the last exportProfile()
    saved,              \* the profile fields as they were at that export
    currentSong,        \* PlayerProvider state.currentSong: a track id, 0 for null
    queue,              \* PlayerProvider state.queue, as track ids
    skipCount,          \* PlayerProvider skipCount
    repeatCount,        \* PlayerProvider repeatCount
    isFetchingQueue,    \* the ref isFetchingQueue.current
    effectDue,          \* a commit changed a dependency of the auto-queue effect
    inFlight            \* the runs of the effect that await searchMusic

vars == <<artistPreferences, genrePreferences, recentlyPlayed, recentlySkipped,
          favoriteArtists, discoveryOpenness, moodPreferences, lastUpdated,
          listeningHistory, script, n, log, lastOp, args, ret, blob, saved,
          currentSong, queue, skipCount, repeatCount, isFetchingQueue, effectDue,
          inFlight>>

playerVars == <<currentSong, queue, skipCount, repeatCount, isFetchingQueue, effectDue,
                inFlight>>

profileVars == <<artistPreferences, genrePreferences, recentlyPlayed, recentlySkipped,
                 favoriteArtists, discoveryOpenness, moodPreferences, lastUpdated>>

----------------------------------------------------------------------------
(* Program constants *)

HISTORY_WINDOW == 50
RECENT_PLAYED_WINDOW == 20
FAVORITES_LIMIT == 10
SKIP_WINDOW == 10
OPENNESS_INIT == 30
OPENNESS_MIN == 10
OPENNESS_MAX == 50
OPENNESS_STEP == 5
EXPORT_HISTORY == 20

(* Affinities are stored in units of 1/Scale. *)
Scale == 8

(* Bounds of the model *)
NumSongs == 22      \* track ids 1..NumSongs
NumArtists == 12    \* artist ids 1..NumArtists
LongRun == 55       \* events of a long scripted run
ShortRun == 12      \* events of a short scripted run
FreeRun == 2        \* events of a run with freely chosen events
MaxCount == 10      \* largest count passed to recommendNextSongs

Actions == {"play", "skip", "replay", "like", "full_listen"}

----------------------------------------------------------------------------
(* The catalogue the caller draws songs from (types/music.ts Song, with    *)
(* the genre and views fields the engine reads through `as any`).          *)

SongIds == 1..NumSongs

ArtistOf(id) == ((id - 1) % NumArtists) + 1

Song(id) ==
    LET base == [id |-> id, artist |-> ArtistOf(id)]
        g == IF id % 3 = 0 THEN base
             ELSE [id |-> id, artist |-> ArtistOf(id), genre |-> (id % 2) + 1]
    IN  IF id % 4 = 0 THEN g
        ELSE g @@ [views |-> CASE id % 4 = 1 -> 150000
                               [] id % 4 = 2 -> 1500000
                               [] OTHER      -> 15000000]

Has(r, f) == f \in DOMAIN r

----------------------------------------------------------------------------
(* Map and Set of JavaScript, in insertion order *)

Range(s) == {s[i] : i \in DOMAIN s}

MapHas(m, k) == \E i \in DOMAIN m : m[i][1] = k

\* Map.prototype.get(k) || 0
MapGetOr0(m, k) ==
    IF MapHas(m, k) THEN m[CHOOSE i \in DOMAIN m : m[i][1] = k][2] ELSE 0

\* Map.prototype.set: an existing key keeps its position
MapSet(m, k, v) ==
    IF MapHas(m, k)
    THEN [i \in DOMAIN m |-> IF m[i][1] = k THEN <<k, v>> ELSE m[i]]
    ELSE Append(m, <<k, v>>)

MapValues(m) == {m[i][2] : i \in DOMAIN m}

\* faulty variant: a set that drops its oldest member beyond the window
SetAddEvicting(s, x) ==
    LET added == IF x \in Range(s) THEN s ELSE Append(s, x)
    IN  IF Len(added) > RECENT_PLAYED_WINDOW THEN Tail(added) ELSE added
\* Set.prototype.add: a member already present keeps its position
SetAdd(s, x) == IF x \in Range(s) THEN s ELSE Append(s, x)

Max(a, b) == IF a >= b THEN a ELSE b
Min(a, b) == IF a <= b THEN a ELSE b

SetMax(S) == CHOOSE x \in S : \A y \in S : y <= x

\* Array.prototype.slice(-k)
SliceLast(s, k) == SubSeq(s, Max(1, Len(s) - k + 1), Len(s))

\* Array.prototype.slice(0, k)
SliceFirst(s, k) == SubSeq(s, 1, Min(k, Len(s)))

\* Array.prototype.sort((a, b) => b[1] - a[1]) on <<item, score>> pairs: stable
\* (ECMAScript 2019), so equal scores keep their order
RECURSIVE sortByScoreDesc(_)
sortByScoreDesc(s) ==
    IF s = <<>> THEN <<>>
    ELSE LET rest == sortByScoreDesc(SubSeq(s, 1, Len(s) - 1))
             x == s[Len(s)]
             k == Cardinality({i \in DOMAIN rest : rest[i][2] >= x[2]})
         IN  SubSeq(rest, 1, k) \o <<x>> \o SubSeq(rest, k + 1, Len(rest))

----------------------------------------------------------------------------
(* recordListeningEvent and updateTasteProfile *)

\* JavaScript truthiness of an optional number: undefined and 0 are falsy
Truthy(e, f) == Has(e, f) /\ e[f] # 0

\* listenDuration && songDuration ? listenDuration / songDuration : 1,
\* as the fraction <<numerator, denominator>>
completionRatio(e) ==
    IF Truthy(e, "listenDuration") /\ Truthy(e, "songDuration")
    THEN <<e.listenDuration, e.songDuration>>
    ELSE <<1, 1>>

\* completionRatio < 0.3
RatioBelow03(r) == r[1] * 10 < 3 * r[2]

\* faulty variant: the push without the shift
NoShiftHistory(history, e) == Append(history, e)
\* listeningHistory.push(event), shift() when longer than HISTORY_WINDOW
pushHistory(history, e) ==
    LET pushed == Append(history, e)
    IN  IF Len(pushed) > HISTORY_WINDOW THEN Tail(pushed) ELSE pushed

\* faulty variant: the skip penalty without Math.max(0, ...)
UnclampedArtistScore(currentArtistScore, action, r) ==
    CASE action = "full_listen" -> currentArtistScore + 3 * Scale
      [] action = "like"        -> currentArtistScore + 5 * Scale
      [] action = "replay"      -> currentArtistScore + 4 * Scale
      [] action = "skip"        ->
            currentArtistScore + (IF RatioBelow03(r) THEN -(2 * Scale) ELSE -(Scale \div 2))
      [] action = "play"        -> currentArtistScore + (r[1] * 3 * Scale) \div (r[2] * 2)
\* the switch on action: the artist's new score
newArtistScore(currentArtistScore, action, r) ==
    CASE action = "full_listen" -> currentArtistScore + 3 * Scale
      [] action = "like"        -> currentArtistScore + 5 * Scale
      [] action = "replay"      -> currentArtistScore + 4 * Scale
      [] action = "skip"        ->
            LET penalty == IF RatioBelow03(r) THEN -(2 * Scale) ELSE -(Scale \div 2)
            IN  Max(0, currentArtistScore + penalty)
      [] action = "play"        ->
            LET credit == (r[1] * 3 * Scale) \div (r[2] * 2)
            IN  currentArtistScore + credit

\* if (genre) { ... }: the genre map after the event
newGenrePreferences(prefs, e) ==
    IF Has(e, "genre")
    THEN LET r == completionRatio(e)
             currentGenreScore == MapGetOr0(prefs, e.genre)
             genreBoost == IF e.action = "skip" THEN -Scale
                           ELSE (r[1] * 2 * Scale) \div r[2]
         IN  MapSet(prefs, e.genre, Max(0, currentGenreScore + genreBoost))
    ELSE prefs

\* faulty variant: the newest member deleted instead of the oldest
EvictNewest(played, songId) ==
    LET added == SetAdd(played, songId)
    IN  IF Len(added) > RECENT_PLAYED_WINDOW
        THEN SubSeq(added, 1, Len(added) - 1) ELSE added
\* faulty variant: a member recorded again moves to the newest position
RefreshOnReplay(played, songId) ==
    LET added == Append(SelectSeq(played, LAMBDA x : x # songId), songId)
    IN  IF Len(added) > RECENT_PLAYED_WINDOW THEN Tail(added) ELSE added
\* recentlyPlayed.add(songId), the oldest member deleted when over the window
newRecentlyPlayed(played, songId) ==
    LET added == SetAdd(played, songId)
    IN  IF Len(added) > RECENT_PLAYED_WINDOW THEN Tail(added) ELSE added

\* faulty variant: the entries sliced without the sort
UnsortedFavorites(prefs) ==
    LET top == SliceFirst(prefs, FAVORITES_LIMIT)
    IN  [i \in DOMAIN top |-> top[i][1]]
\* entries().sort(desc).slice(0, 10).map(([artist]) => artist)
topArtists(prefs) ==
    LET top == SliceFirst(sortByScoreDesc(prefs), FAVORITES_LIMIT)
    IN  [i \in DOMAIN top |-> top[i][1]]

\* e => e.action === 'skip'
IsSkip(e) == e.action = "skip"

\* faulty variant: the skips of the whole history
SkipsOfHistory(history) == Len(SelectSeq(history, IsSkip))
\* listeningHistory.slice(-10).filter(e => e.action === 'skip').length
recentSkips(history) == Len(SelectSeq(SliceLast(history, SKIP_WINDOW), IsSkip))

\* faulty variant: the steps without Math.max and Math.min
UnclampedOpenness(openness, skips) ==
    IF skips > 5 THEN openness - OPENNESS_STEP
    ELSE IF skips < 2 THEN openness + OPENNESS_STEP
    ELSE openness
\* faulty variant: the rise taken below 0.3 instead of below 0.2
LooserRiseOpenness(openness, skips) ==
    IF skips > 5 THEN Max(OPENNESS_MIN, openness - OPENNESS_STEP)
    ELSE IF skips < 3 THEN Min(OPENNESS_MAX, openness + OPENNESS_STEP)
    ELSE openness
\* the adjustment of discoveryOpenness
newOpenness(openness, skips) ==
    IF skips > 5 THEN Max(OPENNESS_MIN, openness - OPENNESS_STEP)
    ELSE IF skips < 2 THEN Min(OPENNESS_MAX, openness + OPENNESS_STEP)
    ELSE openness

\* updateTasteProfile(event), with the history already holding the event
updateTasteProfile(e, history) ==
    LET r == completionRatio(e)
        currentArtistScore == MapGetOr0(artistPreferences, e.artist)
        artists == MapSet(artistPreferences, e.artist,
                          newArtistScore(currentArtistScore, e.action, r))
    IN  /\ artistPreferences' = artists
        /\ recentlySkipped' = IF e.action = "skip"
                              THEN SetAdd(recentlySkipped, e.songId)
                              ELSE recentlySkipped
        /\ genrePreferences' = newGenrePreferences(genrePreferences, e)
        /\ recentlyPlayed' = newRecentlyPlayed(recentlyPlayed, e.songId)
        /\ favoriteArtists' = topArtists(artists)
        /\ discoveryOpenness' = newOpenness(discoveryOpenness, recentSkips(history))
        /\ lastUpdated' = n
        /\ UNCHANGED moodPreferences

recordListeningEvent(e) ==
    LET history == pushHistory(listeningHistory, e)
    IN  /\ listeningHistory' = history
        /\ updateTasteProfile(e, history)
        /\ log' = Append(log, e)
        /\ lastOp' = "recordListeningEvent"
        /\ args' = <<e>>
        /\ ret' = <<>>
        /\ UNCHANGED <<blob, saved>>

\* initializeProfile() and the field initialiser of listeningHistory
initializeProfile ==
    /\ artistPreferences = <<>>
    /\ genrePreferences = <<>>
    /\ recentlyPlayed = <<>>
    /\ recentlySkipped = <<>>
    /\ favoriteArtists = <<>>
    /\ discoveryOpenness = OPENNESS_INIT
    /\ moodPreferences = <<>>
    /\ lastUpdated = 0
    /\ listeningHistory = <<>>

\* faulty variant: the profile reinitialised, the history kept
ResetProfileOnly ==
    /\ artistPreferences' = <<>>
    /\ genrePreferences' = <<>>
    /\ recentlyPlayed' = <<>>
    /\ recentlySkipped' = <<>>
    /\ favoriteArtists' = <<>>
    /\ discoveryOpenness' = OPENNESS_INIT
    /\ moodPreferences' = <<>>
    /\ lastUpdated' = n
    /\ log' = <<>>
    /\ lastOp' = "resetProfile"
    /\ args' = <<>>
    /\ ret' = <<>>
    /\ UNCHANGED <<listeningHistory, blob, saved>>
\* resetProfile(): initializeProfile() again and an empty history
resetProfile ==
    /\ artistPreferences' = <<>>
    /\ genrePreferences' = <<>>
    /\ recentlyPlayed' = <<>>
    /\ recentlySkipped' = <<>>
    /\ favoriteArtists' = <<>>
    /\ discoveryOpenness' = OPENNESS_INIT
    /\ moodPreferences' = <<>>
    /\ lastUpdated' = n
    /\ listeningHistory' = <<>>
    /\ log' = <<>>
    /\ lastOp' = "resetProfile"
    /\ args' = <<>>
    /\ ret' = <<>>
    /\ UNCHANGED <<blob, saved>>

----------------------------------------------------------------------------
(* scoreSong: the six sub-scores, in units of 1/1000 *)

\* faulty variant: the favorites tested ahead of the current artist
FavoriteFirstSimilarity(candidate, context) ==
    LET artistScore == MapGetOr0(artistPreferences, candidate.artist)
    IN  IF candidate.artist \in Range(favoriteArtists)
        THEN 90 * 1000 + artistScore * (1000 \div Scale)
        ELSE IF candidate.artist = context.currentSong.artist THEN 80 * 1000
        ELSE LET maxScore == SetMax(MapValues(artistPreferences) \cup {Scale})
             IN  (artistScore * 70 * 1000) \div maxScore
\* 80 for the current artist, 90 + score for a favorite, otherwise the score
\* relative to Math.max(...values, 1), times 70
calculateArtistSimilarity(candidate, context) ==
    IF candidate.artist = context.currentSong.artist THEN 80 * 1000
    ELSE LET artistScore == MapGetOr0(artistPreferences, candidate.artist)
         IN  IF candidate.artist \in Range(favoriteArtists)
             THEN 90 * 1000 + artistScore * (1000 \div Scale)
             ELSE LET maxScore == SetMax(MapValues(artistPreferences) \cup {Scale})
                  IN  (artistScore * 70 * 1000) \div maxScore

calculateGenreSimilarity(candidate, context) ==
    IF ~Has(candidate, "genre") THEN 50 * 1000
    ELSE LET genreScore == MapGetOr0(genrePreferences, candidate.genre)
             maxScore == SetMax(MapValues(genrePreferences) \cup {Scale})
         IN  (genreScore * 100 * 1000) \div maxScore

calculateMoodCompatibility(candidate, context) ==
    IF context.skipCount > 3
    THEN (IF candidate.artist \in Range(favoriteArtists) THEN 90 * 1000 ELSE 40 * 1000)
    ELSE IF context.repeatCount > 0
    THEN (IF candidate.artist = context.currentSong.artist THEN 95 * 1000 ELSE 60 * 1000)
    ELSE 70 * 1000

calculateNoveltyBonus(candidate) ==
    LET artistScore == MapGetOr0(artistPreferences, candidate.artist)
    IN  IF artistScore = 0 THEN discoveryOpenness * 1000
        ELSE IF artistScore < 3 * Scale THEN discoveryOpenness * 500
        ELSE 10 * 1000

\* faulty variant: recentlySkipped tested ahead of recentlyPlayed
SkippedFirstPenalty(candidate, context) ==
    IF candidate.id \in Range(recentlySkipped) THEN -(100 * 1000)
    ELSE IF candidate.id \in Range(recentlyPlayed) THEN -(80 * 1000)
    ELSE LET tail == SliceLast(context.recentQueue, 3)
             recentArtists == {tail[i].artist : i \in DOMAIN tail}
         IN  IF candidate.artist \in recentArtists THEN -(40 * 1000) ELSE 0
\* -80 for a track recently played, else -100 for one recently skipped, else
\* -40 for an artist among the last 3 of recentQueue, else 0
calculateRepetitionPenalty(candidate, context) ==
    IF candidate.id \in Range(recentlyPlayed) THEN -(80 * 1000)
    ELSE IF candidate.id \in Range(recentlySkipped) THEN -(100 * 1000)
    ELSE LET tail == SliceLast(context.recentQueue, 3)
             recentArtists == {tail[i].artist : i \in DOMAIN tail}
         IN  IF candidate.artist \in recentArtists THEN -(40 * 1000) ELSE 0

calculatePopularitySignal(candidate) ==
    LET views == IF Has(candidate, "views") THEN candidate.views ELSE 0
    IN  IF views > 10000000 THEN 20 * 1000
        ELSE IF views > 1000000 THEN 15 * 1000
        ELSE IF views > 100000 THEN 10 * 1000
        ELSE 5 * 1000

\* the weighted sum, the weights in hundredths
scoreSong(candidate, context) ==
    calculateArtistSimilarity(candidate, context) * 30
    + calculateGenreSimilarity(candidate, context) * 20
    + calculateMoodCompatibility(candidate, context) * 25
    + calculateNoveltyBonus(candidate) * 10
    + calculateRepetitionPenalty(candidate, context) * 10
    + calculatePopularitySignal(candidate) * 5

\* the reasons record of the ScoredCandidate scoreSong returns
scoreReasons(candidate, context) ==
    [artistSimilarity |-> calculateArtistSimilarity(candidate, context),
     genreSimilarity |-> calculateGenreSimilarity(candidate, context),
     moodCompatibility |-> calculateMoodCompatibility(candidate, context),
     noveltyBonus |-> calculateNoveltyBonus(candidate),
     repetitionPenalty |-> calculateRepetitionPenalty(candidate, context),
     popularitySignal |-> calculatePopularitySignal(candidate)]

----------------------------------------------------------------------------
(* recommendNextSongs *)

\* Math.ceil(a / b) for b > 0
CeilDiv(a, b) == -((-a) \div b)

\* favoriteArtists.includes(artist) || (artistPreferences.get(artist) || 0) > 3
isFamiliar(s) ==
    \/ s[1].artist \in Range(favoriteArtists)
    \/ MapGetOr0(artistPreferences, s[1].artist) > 3 * Scale

\* !favoriteArtists.includes(artist) && (artistPreferences.get(artist) || 0) <= 3
isDiscovery(s) ==
    /\ s[1].artist \notin Range(favoriteArtists)
    /\ MapGetOr0(artistPreferences, s[1].artist) <= 3 * Scale

\* faulty variant: Math.floor for Math.ceil
FloorTargetFamiliar(count, openness) == (count * (100 - openness)) \div 100
\* Math.ceil(count * (1 - discoveryOpenness))
targetFamiliar(count, openness) == CeilDiv(count * (100 - openness), 100)

\* for (let i = 0; i < k && i < bucket.length; i++) results.push(bucket[i].song)
takeFront(bucket, k) ==
    LET m == Max(0, Min(k, Len(bucket)))
    IN  [i \in 1..m |-> bucket[i][1]]

\* faulty variant: no backfill
NoBackfill(scored, results, count) == <<>>
\* if (results.length < count) the best-scored candidates not yet in results;
\* includes() compares object references
backfill(scored, results, count) ==
    IF Len(results) < count
    THEN LET refs == {results[i].ref : i \in DOMAIN results}
             notSelected(s) == s[1].ref \notin refs
             remaining == SliceFirst(SelectSeq(scored, notSelected), count - Len(results))
         IN  [i \in DOMAIN remaining |-> remaining[i][1]]
    ELSE <<>>

\* faulty variant: the caller's array sorted in place
SortedInPlace(candidates, context) ==
    LET scored == sortByScoreDesc([i \in DOMAIN candidates |->
                                     <<candidates[i], scoreSong(candidates[i], context)>>])
    IN  [i \in DOMAIN scored |-> scored[i][1]]
\* the caller's array after the call: candidates.map() builds the new array
\* `scored`, and sort() orders that one
callerCandidates(candidates, context) == candidates

recommendNextSongs(candidates, context, count) ==
    LET scored == sortByScoreDesc([i \in DOMAIN candidates |->
                                     <<candidates[i], scoreSong(candidates[i], context)>>])
        familiar == SelectSeq(scored, isFamiliar)
        discovery == SelectSeq(scored, isDiscovery)
        tFamiliar == targetFamiliar(count, discoveryOpenness)
        tDiscovery == count - tFamiliar
        results == takeFront(familiar, tFamiliar) \o takeFront(discovery, tDiscovery)
    IN  results \o backfill(scored, results, count)

----------------------------------------------------------------------------
(* getRecommendationStrategy *)

\* faulty variant: discoveryOpenness tested before the skip rate
DiscoveryFirstStrategy(history, openness) ==
    IF openness > 40 THEN "discovery_mode"
    ELSE IF Len(SelectSeq(SliceLast(history, 10), IsSkip)) > 5 THEN "focus_mode"
    ELSE "balanced"
\* skipRate is held in tenths: length / 10 > 0.5 reads skipRate10 > 5
getRecommendationStrategy(history, openness) ==
    LET skipRate10 == Len(SelectSeq(SliceLast(history, 10), IsSkip))
    IN  IF skipRate10 > 5 THEN "focus_mode"
        ELSE IF openness > 40 THEN "discovery_mode"
        ELSE "balanced"

----------------------------------------------------------------------------
(* exportProfile and importProfile.  The text JSON.stringify writes is held *)
(* as the value JSON.parse reads back from it: objects as records, arrays   *)
(* as sequences, a Map's entries() as an array of [key, value] arrays.      *)
(*                                                                          *)
(* A text passed to importProfile is held as what JSON.parse makes of it:   *)
(*   [syntax |-> FALSE]               JSON.parse throws a SyntaxError       *)
(*   [syntax |-> TRUE, profile |-> <<>>]                                    *)
(*        a value that has no `profile` object: null, a number, {}          *)
(*   [syntax |-> TRUE, profile |-> <<p>>]                                   *)
(*        p holds the fields of `profile` that are present, each with the   *)
(*        type of its value: [type |-> "entries", entries |-> <<...>>] an   *)
(*        array of [key, value] arrays, [type |-> "array", items |-> <<..>>]*)
(*        an array of strings, [type |-> "number", number |-> x],           *)
(*        [type |-> "null"]                                                 *)
(* A field assigned undefined or null holds "undefined" or "null".          *)

\* Array.from(map.entries())
entriesOf(map) == [i \in DOMAIN map |-> <<map[i][1], map[i][2]>>]

\* new Map(entries): set() entry by entry
RECURSIVE newMap(_)
newMap(entries) ==
    IF entries = <<>> THEN <<>>
    ELSE LET last == entries[Len(entries)]
         IN  MapSet(newMap(SubSeq(entries, 1, Len(entries) - 1)), last[1], last[2])

\* faulty variant: the whole history exported
ExportWholeHistory ==
    [profile |-> [artistPreferences |-> entriesOf(artistPreferences),
                  genrePreferences |-> entriesOf(genrePreferences),
                  favoriteArtists |-> favoriteArtists,
                  discoveryOpenness |-> discoveryOpenness],
     history |-> listeningHistory]
\* faulty variant: favoriteArtists left out of the exported profile
ExportWithoutFavorites ==
    [profile |-> [artistPreferences |-> entriesOf(artistPreferences),
                  genrePreferences |-> entriesOf(genrePreferences),
                  favoriteArtists |-> <<>>,
                  discoveryOpenness |-> discoveryOpenness],
     history |-> SliceLast(listeningHistory, EXPORT_HISTORY)]
\* JSON.stringify({ profile: {...}, history: listeningHistory.slice(-20) })
exportProfile ==
    [profile |-> [artistPreferences |-> entriesOf(artistPreferences),
                  genrePreferences |-> entriesOf(genrePreferences),
                  favoriteArtists |-> favoriteArtists,
                  discoveryOpenness |-> discoveryOpenness],
     history |-> SliceLast(listeningHistory, EXPORT_HISTORY)]

\* JSON.parse of a text exportProfile wrote
JSONparse(exported) ==
    [syntax |-> TRUE,
     profile |-> <<[artistPreferences |->
                       [type |-> "entries", entries |-> exported.profile.artistPreferences],
                    genrePreferences |->
                       [type |-> "entries", entries |-> exported.profile.genrePreferences],
                    favoriteArtists |->
                       [type |-> "array", items |-> exported.profile.favoriteArtists],
                    discoveryOpenness |->
                       [type |-> "number", number |-> exported.profile.discoveryOpenness]]>>]

\* new Map(profile.f) throws a TypeError: a number is not iterable, the items
\* of an array of strings are not entry objects
newMapThrows(profile, f) == Has(profile, f) /\ profile[f].type \in {"number", "array"}

\* new Map(profile.f) otherwise: undefined and null give the empty Map
newMapOf(profile, f) ==
    IF Has(profile, f) /\ profile[f].type = "entries" THEN newMap(profile[f].entries)
    ELSE <<>>

\* the value of the expression profile.f
valueOf(profile, f) ==
    IF ~Has(profile, f) THEN "undefined"
    ELSE CASE profile[f].type = "null" -> "null"
           [] profile[f].type = "number" -> profile[f].number
           [] profile[f].type = "array" -> profile[f].items
           [] profile[f].type = "entries" -> profile[f].entries

\* The statements of importProfile: 1 is JSON.parse, 2 to 5 are the four
\* assignments.  throwsAt is the statement that throws for this text, 0 when
\* none does: parsed.profile.artistPreferences throws when there is no
\* profile object.
throwsAt(data) ==
    IF ~data.syntax THEN 1
    ELSE IF data.profile = <<>> THEN 2
    ELSE IF newMapThrows(data.profile[1], "artistPreferences") THEN 2
    ELSE IF newMapThrows(data.profile[1], "genrePreferences") THEN 3
    ELSE 0

\* faulty variant: JSON.parse ahead of the try block
TryAfterParse == 2..5
\* the statements inside try { }
tryBlock == 1..5

\* how the call ends: an exception thrown inside the try block reaches the
\* catch clause, which logs it
importCompletion(data) ==
    IF throwsAt(data) = 0 \/ throwsAt(data) \in tryBlock THEN "return" ELSE "throw"

\* faulty variant: nothing assigned unless no statement throws
ImportAllOrNothing(data) ==
    LET ok == throwsAt(data) = 0
    IN  /\ artistPreferences' = IF ok THEN newMapOf(data.profile[1], "artistPreferences")
                                ELSE artistPreferences
        /\ genrePreferences' = IF ok THEN newMapOf(data.profile[1], "genrePreferences")
                               ELSE genrePreferences
        /\ favoriteArtists' = IF ok THEN valueOf(data.profile[1], "favoriteArtists")
                              ELSE favoriteArtists
        /\ discoveryOpenness' = IF ok THEN valueOf(data.profile[1], "discoveryOpenness")
                                ELSE discoveryOpenness
        /\ UNCHANGED <<recentlyPlayed, recentlySkipped, moodPreferences, lastUpdated,
                       listeningHistory>>
\* importProfile(data): the statements ahead of the one that throws
importProfile(data) ==
    LET done(k) == throwsAt(data) = 0 \/ k < throwsAt(data)
    IN  /\ artistPreferences' = IF done(2) THEN newMapOf(data.profile[1], "artistPreferences")
                                ELSE artistPreferences
        /\ genrePreferences' = IF done(3) THEN newMapOf(data.profile[1], "genrePreferences")
                               ELSE genrePreferences
        /\ favoriteArtists' = IF done(4) THEN valueOf(data.profile[1], "favoriteArtists")
                              ELSE favoriteArtists
        /\ discoveryOpenness' = IF done(5) THEN valueOf(data.profile[1], "discoveryOpenness")
                                ELSE discoveryOpenness
        /\ UNCHANGED <<recentlyPlayed, recentlySkipped, moodPreferences, lastUpdated,
                       listeningHistory>>

----------------------------------------------------------------------------
(* The caller: the events it records and the calls it makes *)

\* the durations a caller passes: playSong passes none, nextSong and the
\* completion effect pass currentTime and duration
ListenDurationOf(d) == CASE d = 1 -> 1 [] d = 2 -> 0 [] d = 3 -> 2 [] d = 4 -> 4
SongDurationOf(d) == CASE d = 1 -> 4 [] d = 2 -> 4 [] d = 3 -> 4 [] d = 4 -> 0

makeEvent(id, action, d, t) ==
    LET song == Song(id)
        base == [songId |-> id, artist |-> song.artist, action |-> action, timestamp |-> t]
        withGenre == IF Has(song, "genre") THEN base @@ [genre |-> song.genre] ELSE base
    IN  IF d = 0 THEN withGenre
        ELSE withGenre @@ [listenDuration |-> ListenDurationOf(d),
                           songDuration |-> SongDurationOf(d)]

Ids(a, b) == [i \in 1..(b - a + 1) |-> a + i - 1]

\* the candidate objects searchMusic returns for a list of track ids: one
\* fresh object per element
Candidates(ids) == [i \in DOMAIN ids |-> Song(ids[i]) @@ [ref |-> i]]

DistinctPools == {<<>>, Ids(1, 3), Ids(1, MaxCount), Ids(8, NumArtists)}
Pools == DistinctPools \cup {<<1, 2, 1>>, <<13, 1, 13>>}

Counts == {0, 1, 3, 5, MaxCount}

\* the tracks scoreSong is stepped on: one of each artist
ScoreSongs == 1..NumArtists

Context(current, skips, repeats, recent) ==
    [currentSong |-> Song(current), queue |-> recent, recentQueue |-> recent,
     skipCount |-> skips, repeatCount |-> repeats, isShuffled |-> FALSE]

Contexts == {Context(1, 0, 0, <<>>),
             Context(2, 4, 0, <<Song(2)>>),
             Context(9, 0, 1, <<Song(1), Song(2), Song(3), Song(9)>>)}

\* event schedules: the song of step k cycles through 1..period, its
\* action (or a reset) through ops; step k is made at time k
ShortPatterns ==
    {<<"skip">>, <<"like">>, <<"play", "skip">>,
     <<"like", "like", "like", "like", "skip", "skip", "skip", "skip", "skip", "skip">>,
     <<"like", "skip", "skip", "skip", "skip", "skip", "skip", "skip">>,
     <<"full_listen", "replay", "play", "skip", "like">>,
     <<"skip", "skip", "skip", "skip", "skip", "skip", "skip", "reset">>}

\* the schedules recorded with each of the other duration pairs: a listen
\* of 0 seconds, of half the track, and a track of duration 0
DurationPatterns ==
    {<<"like", "skip">>, <<"full_listen", "replay", "play", "skip", "like">>}

\* back = 3: every third event returns to track 1, the listener's favourite,
\* while the others walk through the catalogue; back = 0: no such return
Scripts ==
    [period : {1, 7, NumArtists}, ops : ShortPatterns, dur : {0, 1}, len : {ShortRun},
     back : {0}]
    \cup [period : {NumSongs}, ops : {<<"play">>, <<"skip">>, <<"skip", "play", "like">>},
          dur : {0}, len : {LongRun}, back : {0}]
    \cup [period : {1, 7}, ops : DurationPatterns, dur : {2, 3, 4}, len : {ShortRun},
          back : {0}]
    \cup [period : {NumSongs}, ops : {<<"play">>}, dur : {0}, len : {LongRun}, back : {3}]

FreeScript == [period |-> 0, ops |-> <<>>, dur |-> 0, len |-> FreeRun, back |-> 0]
FreeSongs == {1, 3}
FreeDurations == {0, 1}

\* the schedules of the sessions that end with an import
ImportScripts ==
    {sc \in Scripts : (sc.period = 7 /\ sc.dur = 1)
                       \/ (sc.period = NumSongs /\ sc.ops[1] = "skip")}

\* A well-formed profile, and the texts a caller may pass to importProfile:
\* not JSON, JSON without a profile object, the well-formed profile, and the
\* profile with each of its four fields in turn missing or of another type
GoodProfile ==
    [artistPreferences |-> [type |-> "entries", entries |-> <<<<1, 5 * Scale>>, <<2, 0>>>>],
     genrePreferences |-> [type |-> "entries", entries |-> <<<<1, 2 * Scale>>>>],
     favoriteArtists |-> [type |-> "array", items |-> <<1, 2>>],
     discoveryOpenness |-> [type |-> "number", number |-> 35]]

ProfileFields == {"artistPreferences", "genrePreferences", "favoriteArtists", "discoveryOpenness"}

Without(profile, f) == [g \in DOMAIN profile \ {f} |-> profile[g]]

WrongType(f) ==
    CASE f = "artistPreferences" -> [type |-> "number", number |-> 7]
      [] f = "genrePreferences" -> [type |-> "array", items |-> <<1, 2>>]
      [] f = "favoriteArtists" -> [type |-> "number", number |-> 7]
      [] f = "discoveryOpenness" -> [type |-> "null"]

\* an object with none of the four fields
OtherProfile == [version |-> [type |-> "number", number |-> 1]]

\* a profile of the right shape written by another program: a negative
\* affinity, favorites in another order than the scores, openness 0.9
ForeignProfile ==
    [artistPreferences |-> [type |-> "entries", entries |-> <<<<1, -Scale>>, <<2, 3 * Scale>>>>],
     genrePreferences |-> [type |-> "entries", entries |-> <<<<1, 2 * Scale>>>>],
     favoriteArtists |-> [type |-> "array", items |-> <<1, 2>>],
     discoveryOpenness |-> [type |-> "number", number |-> 90]]

Profiles ==
    {GoodProfile, OtherProfile, ForeignProfile}
    \cup {Without(GoodProfile, f) : f \in ProfileFields}
    \cup {[GoodProfile EXCEPT ![f] = WrongType(f)] : f \in ProfileFields}

Texts ==
    {[syntax |-> FALSE], [syntax |-> TRUE, profile |-> <<>>]}
    \cup {[syntax |-> TRUE, profile |-> <<p>>] : p \in Profiles}

ScriptOp(sc, k) == sc.ops[(k % Len(sc.ops)) + 1]
ScriptSong(sc, k) ==
    IF sc.back # 0 /\ k % sc.back = 0 THEN 1 ELSE (k % sc.period) + 1

InitCaller ==
    /\ n = 0
    /\ log = <<>>
    /\ lastOp = "constructor"
    /\ args = <<>>
    /\ ret = <<>>
    /\ blob = <<>>
    /\ saved = <<>>
    /\ currentSong = 0
    /\ queue = <<>>
    /\ skipCount = 0
    /\ repeatCount = 0
    /\ isFetchingQueue = FALSE
    /\ effectDue = FALSE
    /\ inFlight = <<>>

Init ==
    /\ initializeProfile
    /\ script \in Scripts
    /\ InitCaller

InitFree ==
    /\ initializeProfile
    /\ script = FreeScript
    /\ InitCaller

InitImport ==
    /\ initializeProfile
    /\ script \in ImportScripts
    /\ InitCaller

\* the next call of the schedule
ScriptedStep ==
    /\ n < script.len
    /\ n' = n + 1
    /\ UNCHANGED <<script, playerVars>>
    /\ IF ScriptOp(script, n) = "reset"
       THEN resetProfile
       ELSE recordListeningEvent(
                makeEvent(ScriptSong(script, n), ScriptOp(script, n), script.dur, n))

FreeEvent ==
    /\ n < script.len
    /\ n' = n + 1
    /\ UNCHANGED <<script, playerVars>>
    /\ \E id \in FreeSongs, a \in Actions, d \in FreeDurations :
          recordListeningEvent(makeEvent(id, a, d, n))

Reset ==
    /\ resetProfile
    /\ UNCHANGED <<script, n, playerVars>>

\* The read operations leave the engine as it is and overwrite lastOp, args
\* and ret, so a read that follows a read reaches the state the second read
\* reaches alone: reads are taken from the states the writes produce.
IsRead(op) ==
    op \in {"getRecommendationStrategy", "recommendNextSongs", "scoreSong", "exportProfile"}

Strategy ==
    /\ ~IsRead(lastOp)
    /\ ret' = getRecommendationStrategy(listeningHistory, discoveryOpenness)
    /\ lastOp' = "getRecommendationStrategy"
    /\ args' = <<>>
    /\ UNCHANGED <<profileVars, listeningHistory, script, n, log, blob, saved, playerVars>>

Recommend ==
    /\ ~IsRead(lastOp)
    /\ \E pool \in Pools, context \in Contexts, count \in Counts :
          /\ ret' = recommendNextSongs(Candidates(pool), context, count)
          /\ lastOp' = "recommendNextSongs"
          /\ args' = <<callerCandidates(Candidates(pool), context), context, count>>
          /\ UNCHANGED <<profileVars, listeningHistory, script, n, log, blob, saved, playerVars>>

\* scoreSong(candidate, context), the step recommendNextSongs takes for each
\* candidate
Score ==
    /\ ~IsRead(lastOp)
    /\ \E id \in ScoreSongs, context \in Contexts :
          /\ ret' = [song |-> Song(id), score |-> scoreSong(Song(id), context),
                     reasons |-> scoreReasons(Song(id), context)]
          /\ lastOp' = "scoreSong"
          /\ args' = <<Song(id), context>>
          /\ UNCHANGED <<profileVars, listeningHistory, script, n, log, blob, saved, playerVars>>

\* exportProfile() by a caller that does not keep the text
ExportView ==
    /\ ~IsRead(lastOp)
    /\ ret' = exportProfile
    /\ lastOp' = "exportProfile"
    /\ args' = <<>>
    /\ UNCHANGED <<profileVars, listeningHistory, script, n, log, blob, saved, playerVars>>

\* exportProfile() by a caller that keeps the text for a later importProfile
Export ==
    /\ blob' = <<exportProfile>>
    /\ saved' = <<artistPreferences, genrePreferences, favoriteArtists, discoveryOpenness>>
    /\ ret' = exportProfile
    /\ lastOp' = "exportProfile"
    /\ args' = <<>>
    /\ UNCHANGED <<profileVars, listeningHistory, script, n, log, playerVars>>

\* importProfile of the text the caller kept
Import ==
    /\ blob # <<>>
    /\ importProfile(JSONparse(blob[1]))
    /\ lastOp' = "importProfile"
    /\ args' = blob
    /\ ret' = importCompletion(JSONparse(blob[1]))
    /\ UNCHANGED <<script, n, log, blob, saved, playerVars>>

\* importProfile of a text from elsewhere
ImportText ==
    \E data \in Texts :
        /\ importProfile(data)
        /\ lastOp' = "importProfile"
        /\ args' = <<data>>
        /\ ret' = importCompletion(data)
        /\ UNCHANGED <<script, n, log, blob, saved, playerVars>>

Next == ScriptedStep \/ Strategy \/ Recommend \/ Score \/ ExportView

Spec == Init /\ [][Next]_vars

NextFree == FreeEvent \/ Reset \/ Export \/ Import

SpecFree == InitFree /\ [][NextFree]_vars

\* A session that records events, exports now and then, and ends with an
\* import: no call follows an importProfile.
Imported == lastOp = "importProfile"

SessionStep == ~Imported /\ ScriptedStep
SessionExport == ~Imported /\ Export
SessionImport == ~Imported /\ Import
SessionImportText == ~Imported /\ ImportText

NextImport == SessionStep \/ SessionExport \/ SessionImport \/ SessionImportText

SpecImport == InitImport /\ [][NextImport]_vars

----------------------------------------------------------------------------
(* PlayerProvider: the playback queue and the auto-queue effect.  Tracks of *)
(* the queue are held by id.  React commits one state at a time and runs    *)
(* the effect of a commit whose dependencies changed before the next event  *)
(* is handled: the handlers wait for a due effect.  Shuffle and repeat stay *)
(* off.                                                                     *)

AUTO_QUEUE_COUNT == 5
FALLBACK_COUNT == 3
RECENT_QUEUE == 10

PlayerRun == 3      \* listener actions of a player session

\* the tracks the listener picks, the lists they play and the lists a search
\* returns
PlayerPicks == {1, 2}
QueuePicks == {2}
TrackLists == {<<2, 1>>}
SearchResults == {<<>>, <<1, 3, 2>>, Ids(3, 9)}
\* currentTime and duration at a nextSong: 0 for currentTime >= duration * 0.7
SkipDurations == {0, 3}

\* Song.title: track 3 is a live version of track 1
Digits == <<"0", "1", "2", "3", "4", "5", "6", "7", "8", "9">>
TitleOf(id) ==
    LET number == IF id < 10 THEN <<Digits[id + 1]>>
                  ELSE <<Digits[(id \div 10) + 1], Digits[(id % 10) + 1]>>
    IN  IF id = 3 THEN <<"T", "1", "x", " ", "(", "L", "i", "v", "e", ")">>
        ELSE <<"T">> \o number \o <<"x">>

toLowerCase(c) == CASE c = "T" -> "t" [] c = "L" -> "l" [] OTHER -> c

\* title.toLowerCase().replace(/[^a-z0-9]/g, '')
cleanTitle(title) ==
    LET lower == [i \in DOMAIN title |-> toLowerCase(title[i])]
    IN  SelectSeq(lower, LAMBDA c : c \in Range(Digits) \cup {"t", "x", "l", "i", "v", "e"})

\* String.prototype.includes
includes(s, t) ==
    \E i \in 0..(Len(s) - Len(t)) : SubSeq(s, i + 1, i + Len(t)) = t

isTitleTooSimilar(currentTitle, newTitle) ==
    LET clean1 == cleanTitle(currentTitle)
        clean2 == cleanTitle(newTitle)
    IN  includes(clean1, clean2) \/ includes(clean2, clean1)

\* queue.findIndex(s => s.id === id)
findIndex(q, id) ==
    IF \E i \in DOMAIN q : q[i] = id
    THEN (CHOOSE i \in DOMAIN q : q[i] = id /\ \A j \in 1..(i - 1) : q[j] # id) - 1
    ELSE -1

needsMoreSongs(q, current) ==
    Len(q) = 0 \/ findIndex(q, current) >= Len(q) - 2

\* getNextTrack('next') with shuffle and repeat off: 0 for null
getNextTrack(q, current) ==
    IF Len(q) = 0 \/ current = 0 THEN 0
    ELSE IF findIndex(q, current) = -1 THEN q[1]
    ELSE IF findIndex(q, current) + 1 >= Len(q) THEN 0
    ELSE q[findIndex(q, current) + 2]

\* the sessionContext a run of the effect builds from the state it closed over
sessionContext(run) ==
    [currentSong |-> Song(run.currentSong),
     queue |-> [i \in DOMAIN run.queue |-> Song(run.queue[i])],
     recentQueue |-> LET recent == SliceLast(run.queue, RECENT_QUEUE)
                     IN  [i \in DOMAIN recent |-> Song(recent[i])],
     skipCount |-> run.skipCount, repeatCount |-> run.repeatCount, isShuffled |-> FALSE]

searchQuery(strategy, current) ==
    [artist |-> ArtistOf(current),
     words |-> CASE strategy = "focus_mode" -> "best songs"
                 [] strategy = "discovery_mode" -> "similar to new artists"
                 [] OTHER -> "radio"]

\* candidates.filter(...) against the queue and the current track of the run
filterCandidates(candidates, run) ==
    SelectSeq(candidates,
              LAMBDA c : /\ ~\E i \in DOMAIN run.queue : run.queue[i] = c.id
                         /\ c.id # run.currentSong
                         /\ ~isTitleTooSimilar(TitleOf(run.currentSong), TitleOf(c.id)))

RemoveAt(s, k) == SubSeq(s, 1, k - 1) \o SubSeq(s, k + 1, Len(s))

\* the listener's handlers leave these alone when they record no event
NoEvent ==
    UNCHANGED <<profileVars, listeningHistory, log, blob, saved>>

InitPlayer ==
    /\ initializeProfile
    /\ script = FreeScript
    /\ InitCaller

\* the initial fetch: getNowPlaying gives the track of the last session
fetchLastState ==
    /\ ~effectDue /\ n = 0 /\ currentSong = 0
    /\ \E id \in PlayerPicks :
          /\ currentSong' = id
          /\ args' = <<id>>
    /\ effectDue' = TRUE
    /\ n' = n + 1
    /\ lastOp' = "fetchLastState"
    /\ ret' = <<>>
    /\ NoEvent
    /\ UNCHANGED <<script, queue, skipCount, repeatCount, isFetchingQueue, inFlight>>

playSong ==
    /\ ~effectDue /\ n < PlayerRun
    /\ \E id \in PlayerPicks :
          /\ recordListeningEvent(makeEvent(id, "play", 0, n))
          /\ currentSong' = id
          /\ queue' = IF \E i \in DOMAIN queue : queue[i] = id THEN queue
                      ELSE Append(queue, id)
    /\ repeatCount' = repeatCount + 1
    /\ effectDue' = TRUE
    /\ n' = n + 1
    /\ UNCHANGED <<script, skipCount, isFetchingQueue, inFlight>>

playTrackList ==
    /\ ~effectDue /\ n < PlayerRun
    /\ \E tracks \in TrackLists :
          /\ currentSong' = tracks[1]
          /\ queue' = tracks
          /\ args' = <<tracks, 0>>
    /\ effectDue' = TRUE
    /\ n' = n + 1
    /\ lastOp' = "playTrackList"
    /\ ret' = <<>>
    /\ NoEvent
    /\ UNCHANGED <<script, skipCount, repeatCount, isFetchingQueue, inFlight>>

nextSong ==
    /\ ~effectDue /\ n < PlayerRun
    /\ \E d \in SkipDurations :
          LET skipped == currentSong # 0 /\ d # 0
              nextTrack == getNextTrack(queue, currentSong)
          IN  /\ IF skipped
                 THEN /\ recordListeningEvent(makeEvent(currentSong, "skip", d, n))
                      /\ skipCount' = skipCount + 1
                 ELSE /\ NoEvent
                      /\ lastOp' = "nextSong"
                      /\ args' = <<>>
                      /\ ret' = <<>>
                      /\ UNCHANGED skipCount
              /\ currentSong' = IF nextTrack = 0 THEN currentSong ELSE nextTrack
              /\ effectDue' = (skipped \/ nextTrack # 0)
    /\ n' = n + 1
    /\ UNCHANGED <<script, queue, repeatCount, isFetchingQueue, inFlight>>

addToQueue ==
    /\ ~effectDue /\ n < PlayerRun
    /\ \E id \in QueuePicks :
          /\ queue' = Append(queue, id)
          /\ args' = <<id>>
    /\ effectDue' = TRUE
    /\ n' = n + 1
    /\ lastOp' = "addToQueue"
    /\ ret' = <<>>
    /\ NoEvent
    /\ UNCHANGED <<script, currentSong, skipCount, repeatCount, isFetchingQueue, inFlight>>

\* faulty variant: the effect without the test of isFetchingQueue
AutoQueueWithoutFlag ==
    /\ effectDue
    /\ effectDue' = FALSE
    /\ lastOp' = "handleIntelligentAutoQueue"
    /\ args' = <<currentSong, queue>>
    /\ IF currentSong # 0 /\ needsMoreSongs(queue, currentSong)
       THEN /\ isFetchingQueue' = TRUE
            /\ inFlight' = Append(inFlight,
                   [currentSong |-> currentSong, queue |-> queue,
                    skipCount |-> skipCount, repeatCount |-> repeatCount,
                    searchQuery |-> searchQuery(
                        getRecommendationStrategy(listeningHistory, discoveryOpenness),
                        currentSong)])
            /\ ret' = "searching"
       ELSE /\ UNCHANGED <<isFetchingQueue, inFlight>>
            /\ ret' = "returned"
    /\ NoEvent
    /\ UNCHANGED <<script, n, currentSong, queue, skipCount, repeatCount>>

\* a run of the effect, up to its await
handleIntelligentAutoQueue ==
    /\ effectDue
    /\ effectDue' = FALSE
    /\ lastOp' = "handleIntelligentAutoQueue"
    /\ args' = <<currentSong, queue>>
    /\ IF currentSong # 0 /\ ~isFetchingQueue /\ needsMoreSongs(queue, currentSong)
       THEN /\ isFetchingQueue' = TRUE
            /\ inFlight' = Append(inFlight,
                   [currentSong |-> currentSong, queue |-> queue,
                    skipCount |-> skipCount, repeatCount |-> repeatCount,
                    searchQuery |-> searchQuery(
                        getRecommendationStrategy(listeningHistory, discoveryOpenness),
                        currentSong)])
            /\ ret' = "searching"
       ELSE /\ UNCHANGED <<isFetchingQueue, inFlight>>
            /\ ret' = "returned"
    /\ NoEvent
    /\ UNCHANGED <<script, n, currentSong, queue, skipCount, repeatCount>>

\* searchMusic resolves: the rest of the try block, then finally
searchResolved ==
    /\ ~effectDue
    /\ \E k \in DOMAIN inFlight, results \in SearchResults :
          LET run == inFlight[k]
              candidates == filterCandidates(Candidates(results), run)
              recommendations ==
                  recommendNextSongs(candidates, sessionContext(run), AUTO_QUEUE_COUNT)
              fallback == SliceFirst(candidates, FALLBACK_COUNT)
              added == IF Len(recommendations) > 0 THEN recommendations ELSE fallback
          IN  /\ queue' = queue \o [i \in DOMAIN added |-> added[i].id]
              /\ inFlight' = RemoveAt(inFlight, k)
              /\ args' = <<run, results>>
              /\ ret' = [i \in DOMAIN added |-> added[i].id]
    /\ isFetchingQueue' = FALSE
    /\ effectDue' = TRUE
    /\ lastOp' = "searchResolved"
    /\ NoEvent
    /\ UNCHANGED <<script, n, currentSong, skipCount, repeatCount>>

\* searchMusic rejects: catch, then finally
searchRejected ==
    /\ ~effectDue
    /\ \E k \in DOMAIN inFlight :
          /\ inFlight' = RemoveAt(inFlight, k)
          /\ args' = <<inFlight[k]>>
    /\ isFetchingQueue' = FALSE
    /\ lastOp' = "searchRejected"
    /\ ret' = <<>>
    /\ NoEvent
    /\ UNCHANGED <<script, n, currentSong, queue, skipCount, repeatCount, effectDue>>

NextPlayer ==
    \/ fetchLastState \/ playSong \/ playTrackList \/ nextSong \/ addToQueue
    \/ handleIntelligentAutoQueue \/ searchResolved \/ searchRejected

SpecPlayer == InitPlayer /\ [][NextPlayer]_vars

----------------------------------------------------------------------------
(* Properties *)

Recorded == lastOp = "recordListeningEvent"
Recommended == lastOp = "recommendNextSongs"

\* C1 (clamp invariant): after any sequence of recorded events and resets,
\* every stored artist affinity and every stored genre affinity is >= 0.
C1_ClampInvariant ==
    /\ \A i \in DOMAIN artistPreferences : artistPreferences[i][2] >= 0
    /\ \A i \in DOMAIN genrePreferences : genrePreferences[i][2] >= 0

\* a skip of an artist and genre whose affinities were below the penalty
C1_Witness ==
    /\ Recorded
    /\ args[1].action = "skip"
    /\ Has(args[1], "genre")
    /\ Len(log) = 2
    /\ log[1].action = "play"
    /\ log[1].artist = args[1].artist
    /\ <<args[1].artist, 0>> \in Range(artistPreferences)
    /\ <<args[1].genre, 0>> \in Range(genrePreferences)

\* C2 (bounded history): after N recorded events on a fresh engine the history
\* holds exactly the last min(N, 50) of them, in arrival order.
C2_BoundedHistory ==
    LET N == Len(log)
        L == Len(listeningHistory)
    IN  /\ L = (IF N < HISTORY_WINDOW THEN N ELSE HISTORY_WINDOW)
        /\ \A i \in 1..L : listeningHistory[i] = log[N - L + i]

C2_Witness ==
    /\ Len(log) > HISTORY_WINDOW
    /\ Len(listeningHistory) = HISTORY_WINDOW
    /\ listeningHistory[1] = log[Len(log) - HISTORY_WINDOW + 1]
    /\ listeningHistory[1] # log[1]

LogIds == {log[i].songId : i \in DOMAIN log}
LogIdsDistinct == \A i, j \in DOMAIN log : i # j => log[i].songId # log[j].songId

\* C3 (bounded recency set): recentlyPlayed never has more than 20 members;
\* once events for more than 20 distinct track ids were recorded it has exactly
\* 20; and when the recorded ids are pairwise distinct its members are the ids
\* of the last min(N, 20) events, oldest first.
C3_BoundedRecency ==
    LET N == Len(log)
        L == Len(recentlyPlayed)
    IN  /\ L <= RECENT_PLAYED_WINDOW
        /\ Cardinality(LogIds) > RECENT_PLAYED_WINDOW => L = RECENT_PLAYED_WINDOW
        /\ LogIdsDistinct =>
              /\ L = (IF N < RECENT_PLAYED_WINDOW THEN N ELSE RECENT_PLAYED_WINDOW)
              /\ \A i \in 1..L : recentlyPlayed[i] = log[N - L + i].songId

C3_Witness ==
    /\ LogIdsDistinct
    /\ Len(log) > RECENT_PLAYED_WINDOW + 1
    /\ Len(recentlyPlayed) = RECENT_PLAYED_WINDOW
    /\ log[1].songId \notin Range(recentlyPlayed)
    /\ log[2].songId \notin Range(recentlyPlayed)
    /\ log[Len(log)].songId \in Range(recentlyPlayed)

\* C4 (discovery openness bounds): after any sequence of recorded events and
\* resets, 0.1 <= discoveryOpenness <= 0.5.
C4_OpennessBounds ==
    /\ OPENNESS_MIN <= discoveryOpenness
    /\ discoveryOpenness <= OPENNESS_MAX

\* the floor is held against one more skip
C4_Witness ==
    /\ Recorded
    /\ discoveryOpenness = OPENNESS_MIN
    /\ Len(listeningHistory) > SKIP_WINDOW
    /\ \A i \in DOMAIN listeningHistory : listeningHistory[i].action = "skip"

PositionOf(artist) == CHOOSE i \in DOMAIN artistPreferences : artistPreferences[i][1] = artist

\* artist a ranks before artist b: a higher score, or the same score and
\* inserted into the map earlier
RanksBefore(a, b) ==
    LET sa == artistPreferences[PositionOf(a)][2]
        sb == artistPreferences[PositionOf(b)][2]
    IN  sa > sb \/ (sa = sb /\ PositionOf(a) < PositionOf(b))

\* C5 (favorites consistency): in every state favoriteArtists is the list of
\* the top min(10, number of artists) keys of artistAffinity by score
\* descending, equal scores in first-insertion order.
C5_FavoritesConsistency ==
    LET keys == {artistPreferences[i][1] : i \in DOMAIN artistPreferences}
        f == favoriteArtists
    IN  /\ Len(f) = (IF Len(artistPreferences) < FAVORITES_LIMIT
                     THEN Len(artistPreferences) ELSE FAVORITES_LIMIT)
        /\ Range(f) \subseteq keys
        /\ \A i, j \in DOMAIN f : i < j => RanksBefore(f[i], f[j])
        /\ \A a \in keys \ Range(f) : \A i \in DOMAIN f : RanksBefore(f[i], a)

\* more than 10 artists, a tie inside the list, and an artist left out whose
\* score differs from that of some listed artist inserted after it
C5_Witness ==
    /\ Recorded
    /\ Len(artistPreferences) > FAVORITES_LIMIT
    /\ \E i, j \in DOMAIN favoriteArtists :
          /\ i < j
          /\ MapGetOr0(artistPreferences, favoriteArtists[i])
               = MapGetOr0(artistPreferences, favoriteArtists[j])
    /\ \E i \in DOMAIN favoriteArtists :
          /\ favoriteArtists[i] # artistPreferences[i][1]

\* the arguments of the last recommendNextSongs call
CallCandidates == args[1]
CallContext == args[2]
CallCount == args[3]

CandidateIdsDistinct ==
    \A i, j \in DOMAIN CallCandidates :
        i # j => CallCandidates[i].id # CallCandidates[j].id

\* the candidates of the familiar bucket and of the discovery bucket
FamiliarArtist(artist) ==
    \/ \E i \in DOMAIN favoriteArtists : favoriteArtists[i] = artist
    \/ \E i \in DOMAIN artistPreferences :
          artistPreferences[i][1] = artist /\ artistPreferences[i][2] > 3 * Scale
FamiliarRefs == {i \in DOMAIN CallCandidates : FamiliarArtist(CallCandidates[i].artist)}
DiscoveryRefs == DOMAIN CallCandidates \ FamiliarRefs

\* C6 (recommendation size): for a pool of distinct tracks and any count >= 0,
\* recommend returns exactly min(count, |candidates|) tracks, the familiar or
\* the discovery bucket running short or not.
C6_RecommendationSize ==
    (Recommended /\ CandidateIdsDistinct) =>
        /\ Len(ret) = (IF CallCount < Len(CallCandidates)
                       THEN CallCount ELSE Len(CallCandidates))
        /\ Len(ret) <= CallCount

\* the familiar bucket is empty and half of a pool of distinct tracks is asked
\* for: every track returned comes from the backfill or the discovery share
C6_Witness ==
    /\ Recommended
    /\ CandidateIdsDistinct
    /\ FamiliarRefs = {}
    /\ CallCount = 5
    /\ Len(CallCandidates) > 5
    /\ Len(ret) = 5

\* C7 (no duplicates): the list recommend returns never holds two entries with
\* the same track id, whatever candidate list the caller passes in.
C7_NoDuplicates ==
    Recommended => \A i, j \in DOMAIN ret : i # j => ret[i].id # ret[j].id

\* ceil(count * (1 - discoveryOpenness)), said without the model's division
CeilTarget ==
    CHOOSE k \in 0..CallCount :
        /\ k * 100 >= CallCount * (100 - discoveryOpenness)
        /\ (k - 1) * 100 < CallCount * (100 - discoveryOpenness)

CallScore(i) == scoreSong(CallCandidates[i], CallContext)

\* ret[lo + 1 .. lo + k] are the k best-scored members of bucket, best first
BestOfBucket(bucket, lo, k) ==
    /\ \A i \in 1..k : ret[lo + i].ref \in bucket
    /\ \A i, j \in 1..k : i < j =>
          /\ ret[lo + i].ref # ret[lo + j].ref
          /\ CallScore(ret[lo + i].ref) >= CallScore(ret[lo + j].ref)
    /\ \A r \in bucket \ {ret[lo + i].ref : i \in 1..k} :
          \A i \in 1..k : CallScore(ret[lo + i].ref) >= CallScore(r)

C9_RoundTrip ==
    lastOp = "importProfile" =>
        /\ artistPreferences = saved[1]
        /\ genrePreferences = saved[2]
        /\ favoriteArtists = saved[3]
        /\ discoveryOpenness = saved[4]

\* an import into an engine that was reset after the export: its history is
\* empty, the profile is the exported one
C9_Witness ==
    /\ lastOp = "importProfile"
    /\ listeningHistory = <<>>
    /\ Len(artistPreferences) = 2
    /\ Len(genrePreferences) = 1
    /\ Len(favoriteArtists) = 2
    /\ discoveryOpenness # OPENNESS_INIT

\* the skips among the last 10 entries of the history
SkipsInLast10 ==
    Cardinality({i \in DOMAIN listeningHistory :
                    /\ i > Len(listeningHistory) - 10
                    /\ listeningHistory[i].action = "skip"})

\* C10 (strategy selection): strategy() is focus_mode exactly when more than 5
\* of the last 10 history entries are skips, whatever discoveryOpenness is, and
\* never while the history holds fewer than 6 entries; otherwise it is
\* discovery_mode exactly when discoveryOpenness > 0.4; otherwise balanced.
C10_StrategySelection ==
    lastOp = "getRecommendationStrategy" =>
        /\ ret = "focus_mode" <=> SkipsInLast10 > 5
        /\ ret = "discovery_mode" <=> (SkipsInLast10 <= 5 /\ discoveryOpenness > 40)
        /\ ret = "balanced" <=> (SkipsInLast10 <= 5 /\ discoveryOpenness <= 40)
        /\ Len(listeningHistory) < 6 => ret # "focus_mode"

\* focus_mode returned while discoveryOpenness is above 0.4
C10_Witness ==
    /\ lastOp = "getRecommendationStrategy"
    /\ ret = "focus_mode"
    /\ discoveryOpenness > 40
    /\ SkipsInLast10 = 6

\* the engine state: the profile fields and the history
engineState == <<artistPreferences, genrePreferences, recentlyPlayed, recentlySkipped,
                 favoriteArtists, discoveryOpenness, listeningHistory>>

ReadOps == {"scoreSong", "recommendNextSongs", "getRecommendationStrategy", "exportProfile"}

\* the caller's candidate array holds the objects it was passed, each in its
\* place and with its fields as the catalogue made them
CandidatesIntact ==
    \A i \in DOMAIN args[1] : args[1][i] = Song(args[1][i].id) @@ [ref |-> i]

\* C11 (reads are pure): score, recommend, strategy and exportProfile leave
\* artistAffinity, genreAffinity, recentlyPlayed, recentlySkipped,
\* favoriteArtists, discoveryOpenness and the history as they were, and
\* recommend leaves the caller's candidate list in its order and unmodified;
\* so the operations after a read start from the state they would have
\* started from without it.
C11_ReadsArePure ==
    [][(lastOp' \in ReadOps) =>
          /\ engineState' = engineState
          /\ (lastOp' = "recommendNextSongs") => CandidatesIntact']_vars

\* a recommendation on an engine with history whose best-scored pick is not
\* the first candidate of the list passed
C11_Witness ==
    /\ Recommended
    /\ Len(listeningHistory) > 0
    /\ Len(artistPreferences) > 0
    /\ Len(ret) >= 2
    /\ ret[1].ref > ret[2].ref
    /\ CandidatesIntact

\* C12 (import fails silently): for every text, not JSON, JSON without a
\* profile object, or with any of the four fields missing or of another type,
\* importProfile returns normally: no exception reaches the caller.
C12_ImportReturns ==
    Imported => ret = "return"

\* a text whose genrePreferences is an array of strings: the second new Map
\* throws after artistPreferences was assigned, and the call returns
C12_Witness ==
    /\ Imported
    /\ args[1] \in Texts
    /\ throwsAt(args[1]) = 3
    /\ ret = "return"
    /\ Len(listeningHistory) > 0

\* the state of a freshly constructed engine
FreshEngine ==
    [artistPreferences |-> <<>>, genrePreferences |-> <<>>, recentlyPlayed |-> <<>>,
     recentlySkipped |-> <<>>, favoriteArtists |-> <<>>,
     discoveryOpenness |-> OPENNESS_INIT, listeningHistory |-> <<>>]

\* the state of this engine
EngineNow ==
    [artistPreferences |-> artistPreferences, genrePreferences |-> genrePreferences,
     recentlyPlayed |-> recentlyPlayed, recentlySkipped |-> recentlySkipped,
     favoriteArtists |-> favoriteArtists, discoveryOpenness |-> discoveryOpenness,
     listeningHistory |-> listeningHistory]

\* the state of a freshly constructed engine after recording `events`
RECURSIVE FreshAfter(_)
FreshAfter(events) ==
    IF events = <<>> THEN FreshEngine
    ELSE LET s == FreshAfter(SubSeq(events, 1, Len(events) - 1))
             e == events[Len(events)]
             history == pushHistory(s.listeningHistory, e)
             artists == MapSet(s.artistPreferences, e.artist,
                               newArtistScore(MapGetOr0(s.artistPreferences, e.artist),
                                              e.action, completionRatio(e)))
         IN  [artistPreferences |-> artists,
              genrePreferences |-> newGenrePreferences(s.genrePreferences, e),
              recentlyPlayed |-> newRecentlyPlayed(s.recentlyPlayed, e.songId),
              recentlySkipped |-> IF e.action = "skip"
                                  THEN SetAdd(s.recentlySkipped, e.songId)
                                  ELSE s.recentlySkipped,
              favoriteArtists |-> topArtists(artists),
              discoveryOpenness |-> newOpenness(s.discoveryOpenness, recentSkips(history)),
              listeningHistory |-> history]

\* a reset was made in this run: the log restarts at a reset, the step
\* counter does not
WasReset == Len(log) < n

\* C13 (reset): reset() leaves the engine as a freshly constructed one, with
\* empty artistAffinity, genreAffinity, recentlyPlayed, recentlySkipped,
\* favoriteArtists and history and discoveryOpenness 0.3, and the events
\* recorded after it give the profile they give on a fresh engine.
C13_ResetIsFresh ==
    WasReset =>
        /\ lastOp = "resetProfile" => EngineNow = FreshEngine
        /\ EngineNow = FreshAfter(log)

\* seven skips, a reset, four skips: openness is that of a fresh engine after
\* four skips, not that of eleven skips
C13_Witness ==
    /\ WasReset
    /\ Recorded
    /\ Len(log) = 4
    /\ n = 12
    /\ discoveryOpenness = OPENNESS_INIT + OPENNESS_STEP
    /\ Len(recentlySkipped) > 0
    /\ EngineNow = FreshAfter(log)

\* the exported history is the last min(20, length) entries of the history,
\* in order
ExportedHistoryIsTail ==
    LET L == Len(listeningHistory)
        K == IF L < 20 THEN L ELSE 20
    IN  /\ Len(ret.history) = K
        /\ \A i \in 1..K : ret.history[i] = listeningHistory[L - K + i]

\* C14 (export/import frame): exportProfile includes exactly the last
\* min(20, history length) history events in order; importProfile leaves the
\* history, recentlyPlayed and recentlySkipped of the importing engine as they
\* were, so after a reset followed by an import all three are empty.
C14_ExportImportFrame ==
    [][/\ (lastOp' = "exportProfile") => ExportedHistoryIsTail'
       /\ (lastOp' = "importProfile") =>
             /\ UNCHANGED <<listeningHistory, recentlyPlayed, recentlySkipped>>
             /\ (lastOp = "resetProfile") =>
                   /\ listeningHistory' = <<>>
                   /\ recentlyPlayed' = <<>>
                   /\ recentlySkipped' = <<>>]_vars

\* an export of 20 events from a history of more than 20, imported right
\* away into the engine that exported it: its history and recency sets stay
C14_Witness ==
    /\ Imported
    /\ args = blob
    /\ Len(listeningHistory) > EXPORT_HISTORY
    /\ Len(blob[1].history) = EXPORT_HISTORY
    /\ blob[1].history[EXPORT_HISTORY] = listeningHistory[Len(listeningHistory)]
    /\ blob[1].history[1] = listeningHistory[Len(listeningHistory) - EXPORT_HISTORY + 1]
    /\ Len(recentlyPlayed) = RECENT_PLAYED_WINDOW
    /\ Len(recentlySkipped) > 0

\* the event of the last recordListeningEvent, the affinity of its artist
\* and of its genre after it
LastEvent == args[1]
LastArtistAffinity == MapGetOr0(artistPreferences, args[1].artist)
LastGenreAffinity == MapGetOr0(genrePreferences, args[1].genre)

\* the completion ratio of an event as stated: listenDuration / trackDuration
\* when both are provided and trackDuration is not 0, a listenDuration of 0
\* included, and 1 otherwise; as <<numerator, denominator>>
StatedRatio(e) ==
    IF Has(e, "listenDuration") /\ Has(e, "songDuration") /\ e.songDuration # 0
    THEN <<e.listenDuration, e.songDuration>>
    ELSE <<1, 1>>

\* the skip penalty for a ratio: 2 below 0.3, 0.5 otherwise
StatedPenalty(r) == IF r[1] * 10 < 3 * r[2] THEN 2 * Scale ELSE Scale \div 2

\* C15 (completion ratio): the ratio an event is recorded with is
\* listenDuration / trackDuration whenever both are provided and trackDuration
\* is not 0, also for listenDuration 0, and 1 only otherwise: a skip lowers the
\* artist's affinity by 2 (to no less than 0) when that ratio is below 0.3 and
\* by 0.5 otherwise, a play raises it by 1.5 times that ratio.
C15_CompletionRatio ==
    [][(lastOp' = "recordListeningEvent") =>
          LET e == LastEvent'
              r == StatedRatio(e)
              old == MapGetOr0(artistPreferences, e.artist)
          IN  /\ (e.action = "skip") =>
                    LastArtistAffinity' = Max(0, old - StatedPenalty(r))
              /\ (e.action = "play") =>
                    LastArtistAffinity' * 2 * r[2] = old * 2 * r[2] + r[1] * 3 * Scale]_vars

ZeroListen(e) == Has(e, "listenDuration") /\ Has(e, "songDuration")
                 /\ e.listenDuration = 0 /\ e.songDuration # 0

\* the same for every event but those with listenDuration 0 and a track
\* duration other than 0
C15_ApartFromZeroListen ==
    [][(lastOp' = "recordListeningEvent" /\ ~ZeroListen(LastEvent')) =>
          LET e == LastEvent'
              r == StatedRatio(e)
              old == MapGetOr0(artistPreferences, e.artist)
          IN  /\ (e.action = "skip") =>
                    LastArtistAffinity' = Max(0, old - StatedPenalty(r))
              /\ (e.action = "play") =>
                    LastArtistAffinity' * 2 * r[2] = old * 2 * r[2] + r[1] * 3 * Scale]_vars

\* across a step, no artist but `artist` has its entry changed, added or
\* removed
OtherArtistsUnchanged(artist) ==
    /\ \A i \in DOMAIN artistPreferences :
          artistPreferences[i][1] # artist =>
             /\ i \in DOMAIN artistPreferences'
             /\ artistPreferences'[i] = artistPreferences[i]
    /\ \A i \in DOMAIN artistPreferences' :
          artistPreferences'[i][1] # artist => i \in DOMAIN artistPreferences

\* C16 (skip update): a skip changes the artist's affinity to max(0, old - 2)
\* when the completion ratio is below 0.3 and to max(0, old - 0.5) otherwise
\* (old is 0 for an artist not seen before), adds the track to
\* recentlySkipped and changes no other artist's affinity.
C16_SkipUpdate ==
    [][(lastOp' = "recordListeningEvent" /\ LastEvent'.action = "skip") =>
          LET e == LastEvent'
              old == MapGetOr0(artistPreferences, e.artist)
          IN  /\ LastArtistAffinity' = Max(0, old - StatedPenalty(StatedRatio(e)))
              /\ e.songId \in Range(recentlySkipped')
              /\ OtherArtistsUnchanged(e.artist)]_vars

\* the same for every skip but those with listenDuration 0 and a track
\* duration other than 0
C16_ApartFromZeroListen ==
    [][(lastOp' = "recordListeningEvent" /\ LastEvent'.action = "skip"
           /\ ~ZeroListen(LastEvent')) =>
          LET e == LastEvent'
              old == MapGetOr0(artistPreferences, e.artist)
          IN  /\ LastArtistAffinity' = Max(0, old - StatedPenalty(StatedRatio(e)))
              /\ e.songId \in Range(recentlySkipped')
              /\ OtherArtistsUnchanged(e.artist)]_vars

\* the rise of the artist's affinity across a step is what is stated for the
\* action: 3, 5, 4, or 1.5 times the completion ratio
StatedRise(e) ==
    LET r == StatedRatio(e)
        old == MapGetOr0(artistPreferences, e.artist)
    IN  CASE e.action = "full_listen" -> LastArtistAffinity' = old + 3 * Scale
          [] e.action = "like"        -> LastArtistAffinity' = old + 5 * Scale
          [] e.action = "replay"      -> LastArtistAffinity' = old + 4 * Scale
          [] e.action = "play"        ->
                LastArtistAffinity' * 2 * r[2] = old * 2 * r[2] + r[1] * 3 * Scale

\* C17 (positive actions): recordEvent raises the artist's affinity by exactly
\* 3 for full_listen, 5 for like, 4 for replay and 1.5 times the completion
\* ratio for play, leaves every other artist's affinity as it was and adds no
\* track to recentlySkipped; one like for an artist on a fresh engine gives
\* affinity 5 and favoriteArtists equal to that single artist.
C17_PositiveActions ==
    [][(lastOp' = "recordListeningEvent" /\ LastEvent'.action # "skip") =>
          LET e == LastEvent'
          IN  /\ StatedRise(e)
              /\ OtherArtistsUnchanged(e.artist)
              /\ recentlySkipped' = recentlySkipped
              /\ (e.action = "like" /\ artistPreferences = <<>> /\ listeningHistory = <<>>) =>
                    /\ artistPreferences' = <<<<e.artist, 5 * Scale>>>>
                    /\ favoriteArtists' = <<e.artist>>]_vars

\* the same for every event but those with listenDuration 0 and a track
\* duration other than 0
C17_ApartFromZeroListen ==
    [][(lastOp' = "recordListeningEvent" /\ LastEvent'.action # "skip"
           /\ ~ZeroListen(LastEvent')) =>
          LET e == LastEvent'
          IN  /\ StatedRise(e)
              /\ OtherArtistsUnchanged(e.artist)
              /\ recentlySkipped' = recentlySkipped
              /\ (e.action = "like" /\ artistPreferences = <<>> /\ listeningHistory = <<>>) =>
                    /\ artistPreferences' = <<<<e.artist, 5 * Scale>>>>
                    /\ favoriteArtists' = <<e.artist>>]_vars

\* the discoveryOpenness stated for a step from `old` with s skips among the
\* last 10 history entries
StatedOpenness(old, s) ==
    IF s > 5 THEN (IF old - 5 > 10 THEN old - 5 ELSE 10)
    ELSE IF s < 2 THEN (IF old + 5 < 50 THEN old + 5 ELSE 50)
    ELSE old

\* C18 (genre update): when the event carries a genre, genreAffinity[genre]
\* becomes max(0, old - 1) for a skip and max(0, old + 2 times the completion
\* ratio) for any other action; when it carries none, recordEvent completes,
\* genreAffinity is left as it was, and the artist, recency, favorites and
\* openness updates are applied all the same.
C18_GenreUpdate ==
    [][(lastOp' = "recordListeningEvent") =>
          LET e == LastEvent'
              r == StatedRatio(e)
          IN  IF Has(e, "genre")
              THEN LET old == MapGetOr0(genrePreferences, e.genre)
                   IN  IF e.action = "skip"
                       THEN LastGenreAffinity' = Max(0, old - Scale)
                       ELSE LastGenreAffinity' * r[2] = Max(0, old * r[2] + r[1] * 2 * Scale)
              ELSE /\ genrePreferences' = genrePreferences
                   /\ MapHas(artistPreferences', e.artist)
                   /\ (e.action \in {"like", "replay", "full_listen"}) =>
                         LastArtistAffinity' > MapGetOr0(artistPreferences, e.artist)
                   /\ e.songId \in Range(recentlyPlayed')
                   /\ (e.action = "skip") => e.songId \in Range(recentlySkipped')
                   /\ C5_FavoritesConsistency'
                   /\ discoveryOpenness' = StatedOpenness(discoveryOpenness, SkipsInLast10')]_vars

\* the same for every event but those with listenDuration 0 and a track
\* duration other than 0
C18_ApartFromZeroListen ==
    [][(lastOp' = "recordListeningEvent" /\ ~ZeroListen(LastEvent')) =>
          LET e == LastEvent'
              r == StatedRatio(e)
          IN  IF Has(e, "genre")
              THEN LET old == MapGetOr0(genrePreferences, e.genre)
                   IN  IF e.action = "skip"
                       THEN LastGenreAffinity' = Max(0, old - Scale)
                       ELSE LastGenreAffinity' * r[2] = Max(0, old * r[2] + r[1] * 2 * Scale)
              ELSE /\ genrePreferences' = genrePreferences
                   /\ MapHas(artistPreferences', e.artist)
                   /\ (e.action \in {"like", "replay", "full_listen"}) =>
                         LastArtistAffinity' > MapGetOr0(artistPreferences, e.artist)
                   /\ e.songId \in Range(recentlyPlayed')
                   /\ (e.action = "skip") => e.songId \in Range(recentlySkipped')
                   /\ C5_FavoritesConsistency'
                   /\ discoveryOpenness' = StatedOpenness(discoveryOpenness, SkipsInLast10')]_vars

\* C19 (openness adjustment): recordEvent appends the event to the history
\* and then, with s the skips among the last 10 history entries, the new one
\* included, sets discoveryOpenness to max(0.1, old - 0.05) if s > 5, to
\* min(0.5, old + 0.05) if s < 2, and leaves it if 2 <= s <= 5; so recording
\* the sixth skip within the last 10 entries lowers it by 0.05 unless it is
\* at 0.1 already.
C19_OpennessAdjustment ==
    [][(lastOp' = "recordListeningEvent") =>
          /\ listeningHistory' # <<>>
          /\ listeningHistory'[Len(listeningHistory')] = LastEvent'
          /\ discoveryOpenness' = StatedOpenness(discoveryOpenness, SkipsInLast10')
          /\ (LastEvent'.action = "skip" /\ SkipsInLast10' = 6 /\ discoveryOpenness > 10) =>
                discoveryOpenness' = discoveryOpenness - 5]_vars

\* four likes raised openness to 0.5 and five skips left it there; the sixth
\* skip, the tenth entry of the history, lowers it to 0.45
C19_Witness ==
    /\ Recorded
    /\ LastEvent.action = "skip"
    /\ Len(listeningHistory) = 10
    /\ SkipsInLast10 = 6
    /\ listeningHistory[9].action = "skip"
    /\ listeningHistory[1].action = "like"
    /\ discoveryOpenness = OPENNESS_MAX - OPENNESS_STEP

\* the arguments of the last scoreSong step and the affinity stored for the
\* candidate's artist, 0 when there is none
ScoredCandidate == args[1]
ScoredContext == args[2]
ScoredAffinity ==
    IF \E i \in DOMAIN artistPreferences : artistPreferences[i][1] = ScoredCandidate.artist
    THEN artistPreferences[PositionOf(ScoredCandidate.artist)][2]
    ELSE 0

\* max(largest stored artist affinity, 1), in units of 1/Scale
SimilarityDenominator ==
    IF \E i \in DOMAIN artistPreferences : artistPreferences[i][2] > Scale
    THEN CHOOSE x \in {artistPreferences[i][2] : i \in DOMAIN artistPreferences} :
            \A i \in DOMAIN artistPreferences : artistPreferences[i][2] <= x
    ELSE Scale

\* C20 (artistSimilarity): 80 for a candidate of the current track's artist,
\* whatever its affinity and whether a favorite or not; otherwise
\* 90 + affinity for an artist in favoriteArtists; otherwise
\* affinity / max(largest stored affinity, 1) * 70, with a denominator that
\* is never 0 and a value within [0, 70].  The sub-score is held in
\* thousandths, rounded down.
C20_ArtistSimilarity ==
    lastOp = "scoreSong" =>
        LET v == ret.reasons.artistSimilarity
        IN  IF ScoredCandidate.artist = ScoredContext.currentSong.artist
            THEN v = 80 * 1000
            ELSE IF \E i \in DOMAIN favoriteArtists :
                       favoriteArtists[i] = ScoredCandidate.artist
            THEN v * Scale = (90 * Scale + ScoredAffinity) * 1000
            ELSE /\ SimilarityDenominator > 0
                 /\ v * SimilarityDenominator <= ScoredAffinity * 70 * 1000
                 /\ ScoredAffinity * 70 * 1000 < (v + 1) * SimilarityDenominator
                 /\ 0 <= v
                 /\ v <= 70 * 1000

\* an artist with a positive affinity that is not among the ten favorites and
\* not the current artist: a sub-score strictly between 0 and 70
C20_Witness ==
    /\ lastOp = "scoreSong"
    /\ ScoredCandidate.artist # ScoredContext.currentSong.artist
    /\ ScoredCandidate.artist \notin Range(favoriteArtists)
    /\ ScoredAffinity > 0
    /\ ret.reasons.artistSimilarity > 0
    /\ ret.reasons.artistSimilarity < 70 * 1000

\* the candidate of the last scoreSong step is in recentlyPlayed, is in
\* recentlySkipped, has its artist among the last 3 tracks of recentQueue
ScoredPlayed == \E i \in DOMAIN recentlyPlayed : recentlyPlayed[i] = ScoredCandidate.id
ScoredSkipped == \E i \in DOMAIN recentlySkipped : recentlySkipped[i] = ScoredCandidate.id
ScoredArtistRecent ==
    \E i \in DOMAIN ScoredContext.recentQueue :
        /\ i > Len(ScoredContext.recentQueue) - 3
        /\ ScoredContext.recentQueue[i].artist = ScoredCandidate.artist

\* C21 (repetitionPenalty order): recentlyPlayed is tested before
\* recentlySkipped: -80 for a track in recentlyPlayed, also when it is in both
\* sets; -100 only for a track in recentlySkipped and not in recentlyPlayed;
\* -40 only for a track in neither set whose artist is among the last 3
\* tracks of recentQueue; otherwise 0.
C21_RepetitionPenalty ==
    lastOp = "scoreSong" =>
        LET v == ret.reasons.repetitionPenalty
        IN  /\ ScoredPlayed => v = -(80 * 1000)
            /\ v = -(100 * 1000) <=> (ScoredSkipped /\ ~ScoredPlayed)
            /\ v = -(40 * 1000) <=> (~ScoredSkipped /\ ~ScoredPlayed /\ ScoredArtistRecent)
            /\ v = 0 <=> (~ScoredSkipped /\ ~ScoredPlayed /\ ~ScoredArtistRecent)

\* a track in both sets, of an artist among the last 3 of recentQueue: -80
C21_Witness ==
    /\ lastOp = "scoreSong"
    /\ ScoredPlayed
    /\ ScoredSkipped
    /\ ScoredArtistRecent
    /\ ret.reasons.repetitionPenalty = -(80 * 1000)

\* C22 (recentlySkipped grows monotonically): between two resets no
\* operation removes a track from recentlySkipped: a track once skipped stays
\* in the set for the rest of the session, and the set grows with the number
\* of distinct tracks skipped, beyond the 20 that bound recentlyPlayed.
C22_SkippedMonotone ==
    [][(lastOp' # "resetProfile") =>
          /\ \A i \in DOMAIN recentlySkipped :
                \E j \in DOMAIN recentlySkipped' : recentlySkipped'[j] = recentlySkipped[i]
          /\ (lastOp' = "recordListeningEvent" /\ LastEvent'.action = "skip"
                 /\ \A i \in DOMAIN recentlySkipped :
                       recentlySkipped[i] # LastEvent'.songId) =>
                Len(recentlySkipped') = Len(recentlySkipped) + 1]_vars

\* more than 20 distinct tracks skipped, an export and an import later: the
\* first of them has left recentlyPlayed and is still in recentlySkipped
C22_Witness ==
    /\ Imported
    /\ blob # <<>>
    /\ Len(recentlySkipped) > RECENT_PLAYED_WINDOW
    /\ log[1].action = "skip"
    /\ log[1].songId \in Range(recentlySkipped)
    /\ log[1].songId \notin Range(recentlyPlayed)

\* the last call was an importProfile that took the error path
ImportFailed ==
    /\ Imported
    /\ args[1] \in Texts
    /\ throwsAt(args[1]) # 0

\* the text of the last import holds a profile object whose field f is
\* present with a value of type t
ImportedFieldIs(f, t) ==
    /\ args[1].syntax
    /\ args[1].profile # <<>>
    /\ f \in DOMAIN args[1].profile[1]
    /\ args[1].profile[1][f].type = t

\* C23 (failed import leaves the state unchanged): whenever importProfile
\* takes the error path, artistAffinity, genreAffinity, favoriteArtists and
\* discoveryOpenness all keep the values they had before the call.
C23_FailedImportUnchanged ==
    [][ImportFailed' =>
          UNCHANGED <<artistPreferences, genrePreferences, favoriteArtists,
                      discoveryOpenness>>]_vars

\* C23, amended: a failed import keeps genreAffinity, favoriteArtists and
\* discoveryOpenness; it keeps artistAffinity too when the text is not JSON,
\* has no profile object, or has an artistPreferences that is not an array
\* of entries; when it fails on genrePreferences, artistAffinity has already
\* been replaced by the map of the text.
C23_FailedImportPartial ==
    [][ImportFailed' =>
          /\ UNCHANGED <<genrePreferences, favoriteArtists, discoveryOpenness>>
          /\ IF ImportedFieldIs("artistPreferences", "entries")'
             THEN artistPreferences' = newMap(args'[1].profile[1].artistPreferences.entries)
             ELSE artistPreferences' = artistPreferences]_vars

\* genrePreferences is an array of strings: the import fails with the
\* artist map of the text in place and the other three fields as they were
C23_Witness ==
    /\ ImportFailed
    /\ ImportedFieldIs("genrePreferences", "array")
    /\ artistPreferences = <<<<1, 5 * Scale>>, <<2, 0>>>>
    /\ Len(genrePreferences) = 2
    /\ Len(favoriteArtists) > 2
    /\ discoveryOpenness # 35

\* the last call was an importProfile that returned without taking the error
\* path, of a text whose favoriteArtists is an array and whose
\* discoveryOpenness is a number
ImportAccepted ==
    /\ Imported
    /\ \/ (blob # <<>> /\ args = blob)
       \/ /\ args[1] \in Texts
          /\ throwsAt(args[1]) = 0
          /\ ImportedFieldIs("favoriteArtists", "array")
          /\ ImportedFieldIs("discoveryOpenness", "number")

\* C24 (profile invariants survive import): after importProfile of any text
\* that is accepted without error, discoveryOpenness is within [0.1, 0.5],
\* every affinity is >= 0 and favoriteArtists is the top <= 10 of the
\* imported artistAffinity in descending order.
C24_ImportKeepsInvariants ==
    ImportAccepted =>
        /\ OPENNESS_MIN <= discoveryOpenness /\ discoveryOpenness <= OPENNESS_MAX
        /\ \A i \in DOMAIN artistPreferences : artistPreferences[i][2] >= 0
        /\ \A i \in DOMAIN genrePreferences : genrePreferences[i][2] >= 0
        /\ C5_FavoritesConsistency

\* the same after an import of a text exportProfile wrote in this session
C24_ExportedTextKeepsInvariants ==
    (Imported /\ blob # <<>> /\ args = blob) =>
        /\ OPENNESS_MIN <= discoveryOpenness /\ discoveryOpenness <= OPENNESS_MAX
        /\ \A i \in DOMAIN artistPreferences : artistPreferences[i][2] >= 0
        /\ \A i \in DOMAIN genrePreferences : genrePreferences[i][2] >= 0
        /\ C5_FavoritesConsistency

\* C26 (no favorite with affinity 0): an artist whose stored affinity is 0 is
\* never a member of favoriteArtists, and a candidate of such an artist is
\* never given the favorite-artist similarity 90 + affinity by scoreSong.
C26_NoZeroFavorite ==
    /\ \A i \in DOMAIN artistPreferences :
          artistPreferences[i][2] = 0 =>
              \A j \in DOMAIN favoriteArtists : favoriteArtists[j] # artistPreferences[i][1]
    /\ (lastOp = "scoreSong" /\ ScoredAffinity = 0) =>
          ret.reasons.artistSimilarity # 90 * 1000

\* an artist of affinity 0 is a favorite only while it is among the first ten
\* of the ranking: with ten artists of positive affinity in the map, none is
C26_ZeroFavoriteOnlyWhenFewArtists ==
    Cardinality({i \in DOMAIN artistPreferences : artistPreferences[i][2] > 0})
            >= FAVORITES_LIMIT =>
        \A i \in DOMAIN artistPreferences :
            artistPreferences[i][2] = 0 =>
                \A j \in DOMAIN favoriteArtists : favoriteArtists[j] # artistPreferences[i][1]

\* C27 (a skip never raises openness): discoveryOpenness after
\* recordEvent(skip) is less than or equal to its value before the call.
C27_SkipNeverRaisesOpenness ==
    [][(lastOp' = "recordListeningEvent" /\ LastEvent'.action = "skip") =>
          discoveryOpenness' <= discoveryOpenness]_vars

\* C27, amended: recording a skip raises discoveryOpenness exactly when that
\* skip is the only skip among the last 10 history entries and openness is
\* below 0.5; the rise is 0.05.  With two or more skips in the window
\* (the new one included) a skip never raises it.
C27_SkipRaisesOnlyWhenAlone ==
    [][(lastOp' = "recordListeningEvent" /\ LastEvent'.action = "skip") =>
          /\ discoveryOpenness' > discoveryOpenness <=>
                (SkipsInLast10' = 1 /\ discoveryOpenness < OPENNESS_MAX)
          /\ discoveryOpenness' > discoveryOpenness =>
                discoveryOpenness' = discoveryOpenness + OPENNESS_STEP]_vars

\* the first event of a session is a skip: openness is 0.35
C27_Witness ==
    /\ Recorded
    /\ LastEvent.action = "skip"
    /\ Len(listeningHistory) = 1
    /\ SkipsInLast10 = 1
    /\ discoveryOpenness = OPENNESS_INIT + OPENNESS_STEP

\* the positions of the last 20 recorded events
LastTwenty == {i \in DOMAIN log : i > Len(log) - RECENT_PLAYED_WINDOW}

\* C28 (recency coverage with repeated tracks): the track of each of the last
\* 20 recorded events is a member of recentlyPlayed, track ids repeating or
\* not.
C28_LastTwentyAreMembers ==
    \A i \in LastTwenty : \E j \in DOMAIN recentlyPlayed : recentlyPlayed[j] = log[i].songId

\* C28, amended: recentlyPlayed is kept in order of insertion.  Recording a
\* track that is a member leaves the set as it is, position included;
\* recording one that is not appends it and deletes the oldest-inserted member
\* when the size exceeds 20.  The track of the last event is always a member,
\* and so is the track of each of the last 20 events that had not been
\* recorded before.
C28_InsertionOrderRecency ==
    [][(lastOp' = "recordListeningEvent") =>
          LET id == LastEvent'.songId
              member == \E j \in DOMAIN recentlyPlayed : recentlyPlayed[j] = id
              appended == Append(recentlyPlayed, id)
          IN  /\ \E j \in DOMAIN recentlyPlayed' : recentlyPlayed'[j] = id
              /\ member => recentlyPlayed' = recentlyPlayed
              /\ ~member =>
                    recentlyPlayed' = IF Len(appended) > RECENT_PLAYED_WINDOW
                                      THEN SubSeq(appended, 2, Len(appended))
                                      ELSE appended
              /\ \A i \in DOMAIN log' :
                    (/\ i > Len(log') - RECENT_PLAYED_WINDOW
                     /\ \A k \in 1..(i - 1) : log'[k].songId # log'[i].songId) =>
                        \E j \in DOMAIN recentlyPlayed' : recentlyPlayed'[j] = log'[i].songId]_vars

\* track 1 was recorded again while a member and twenty tracks were inserted
\* after its insertion: it is out of the full set, one event after it was
\* recorded
C28_Witness ==
    /\ Recorded
    /\ Len(recentlyPlayed) = RECENT_PLAYED_WINDOW
    /\ Len(log) > 2
    /\ log[Len(log) - 1].songId = 1
    /\ \A j \in DOMAIN recentlyPlayed : recentlyPlayed[j] # 1

\* C25 (auto-queue appends only absent tracks): every track the auto-queue
\* appends to the playback queue is absent from the queue, and is not the
\* current track, at the moment it is appended, whatever addToQueue, playSong,
\* playTrackList or nextSong did while the search was in flight.
C25_AppendsOnlyAbsentTracks ==
    [][(lastOp' = "searchResolved") =>
          \A i \in DOMAIN queue' :
              i > Len(queue) =>
                  /\ \A j \in DOMAIN queue : queue[j] # queue'[i]
                  /\ queue'[i] # currentSong]_vars

\* the same for the searches during which the queue and the current track
\* stayed as the run of the effect saw them
C25_AppendsAbsentWhenUndisturbed ==
    [][(lastOp' = "searchResolved" /\ args'[1].queue = queue
            /\ args'[1].currentSong = currentSong) =>
          \A i \in DOMAIN queue' :
              i > Len(queue) =>
                  /\ \A j \in DOMAIN queue : queue[j] # queue'[i]
                  /\ queue'[i] # currentSong]_vars

\* C29 (single-flight auto-queue): at most one candidate search is in flight
\* at any time; a run of the effect that finds one in flight returns without
\* searching and without touching the queue; and isFetchingQueue is set
\* exactly while a search is in flight, so it is cleared when the search
\* resolves (with or without candidates) or rejects.
C29_SingleFlight ==
    [][/\ Len(inFlight') <= 1
       /\ isFetchingQueue' <=> (inFlight' # <<>>)
       /\ (lastOp' = "handleIntelligentAutoQueue" /\ inFlight # <<>>) =>
             /\ inFlight' = inFlight
             /\ queue' = queue
             /\ ret' = "returned"
       /\ (lastOp' \in {"searchResolved", "searchRejected"}) =>
             /\ ~isFetchingQueue'
             /\ inFlight' = <<>>]_vars

\* a run of the effect that needed more songs returned because a search was
\* in flight
C29_Witness ==
    /\ lastOp = "handleIntelligentAutoQueue"
    /\ ret = "returned"
    /\ inFlight # <<>>
    /\ isFetchingQueue
    /\ currentSong # 0
    /\ needsMoreSongs(queue, currentSong)

\* C30 (auto-queue quiescence): when a search yields no usable candidates
\* (empty recommendation and empty fallback), the queue update of the effect
\* does not make the effect search again.
C30_EmptyResultDoesNotSearchAgain ==
    [][(lastOp = "searchResolved" /\ ret = <<>>
            /\ lastOp' = "handleIntelligentAutoQueue") =>
          inFlight' = inFlight]_vars

\* a search that appended tracks until the current track is more than two
\* from the end of the queue is not followed by another
C30_QuietOnceFilled ==
    [][(lastOp = "searchResolved" /\ ~needsMoreSongs(queue, currentSong)
            /\ lastOp' = "handleIntelligentAutoQueue") =>
          inFlight' = inFlight]_vars

=============================================================================
